---- MODULE Spec2Model ----
(***************************************************************************)
(* Model of the Halo timecode console (src/src/main.rs): the transport     *)
(* clock, the cue list and the beat indicator driven by HaloApp::update.   *)
(*                                                                         *)
(* Time is discrete.  An Instant is a number of time units since the app   *)
(* was constructed, a Duration is a number of time units; one unit is      *)
(* UnitMs milliseconds.  HaloApp::update (one frame) is a sequence of      *)
(* steps in source order; pc names the last step of the frame that ran.    *)
(* The monotonic clock may move between any two steps, since every         *)
(* Instant::now() / Instant::elapsed() in the source is a separate read.   *)
(*                                                                         *)
(* BeatIndicator::update reads the clock twice (last_beat_time.elapsed()  *)
(* and Instant::now()); both reads fall into the same time unit.           *)
(*                                                                         *)
(* fps and effects_count are set once in HaloApp::default and never        *)
(* written; they are not part of the state.                                *)
(***************************************************************************)
EXTENDS Integers, Sequences, FiniteSets, TLC

\* ---------------------------------------------------------------- bounds
\* Last instant the monotonic clock reaches in the model.
MaxNow == 5
\* Last instant the clock reaches under BeatSpec.
MaxBeatNow == 8
\* Number of override pads modelled (HaloApp::default builds twelve).
NumPads == 1
\* Inputs of the pure-function specification CueSpec.
MaxCueStart == 3
MaxCueDur == 3
MaxCueElapsed == 56
\* Last instant the clock reaches under ShowSpec, and the clock's step there.
MaxShowNow == 100
ShowStep == 4
\* Last instant the clock reaches under TempoSpec.
MaxTempoNow == 7
\* Last instant the clock reaches under FrameSpec.
MaxFrameNow == 3

\* ------------------------------------------------------- time and floats
\* Milliseconds per time unit: one unit is one beat at the default 120 BPM
\* (Duration::from_secs_f32(60.0 / 120.0)).
UnitMs == 60000 \div 120
UnitsPerSec == 1000 \div UnitMs

\* Option<Instant>::None
None == -1

\* Duration::from_secs
from_secs(secs) == secs * UnitsPerSec

RECURSIVE Gcd(_, _)
Gcd(a, b) == IF b = 0 THEN a ELSE Gcd(b, a % b)

\* An f32 value is the fraction <<num, den>> in lowest terms; <<0, 0>> is
\* NaN (0.0 / 0.0) and <<1, 0>> is +inf (x / 0.0, x > 0).
F32(n, d) ==
    IF d = 0 THEN (IF n = 0 THEN <<0, 0>> ELSE <<1, 0>>)
    ELSE <<n \div Gcd(n, d), d \div Gcd(n, d)>>
NaN == <<0, 0>>
Zero == <<0, 1>>
One == <<1, 1>>

\* a.as_secs_f32() / b.as_secs_f32() for two Durations
DivSecsF32(a, b) == F32(a * UnitMs, b * UnitMs)

\* ------------------------------------------------------------------ Cue
CueNew(name, start_time_secs, duration_secs) ==
    [name |-> name,
     start_time |-> from_secs(start_time_secs),
     duration |-> from_secs(duration_secs),
     is_playing |-> FALSE,
     progress |-> Zero]

\* Cue::update with an exclusive end of the window as one variant, with
\* the progress taken from the transport time as another, with a finished
\* cue cleared as a third and with a finished cue left playing as a fourth.
CueUpdateClearsWhenDone(cue, current_time) ==
    IF current_time >= cue.start_time
    THEN LET elapsed_in_cue == current_time - cue.start_time IN
         IF elapsed_in_cue <= cue.duration
         THEN [cue EXCEPT !.is_playing = TRUE,
                          !.progress = DivSecsF32(elapsed_in_cue, cue.duration)]
         ELSE [cue EXCEPT !.is_playing = FALSE, !.progress = Zero]
    ELSE [cue EXCEPT !.is_playing = FALSE, !.progress = Zero]
CueUpdateNeverStops(cue, current_time) ==
    IF current_time >= cue.start_time
    THEN LET elapsed_in_cue == current_time - cue.start_time IN
         IF elapsed_in_cue <= cue.duration
         THEN [cue EXCEPT !.is_playing = TRUE,
                          !.progress = DivSecsF32(elapsed_in_cue, cue.duration)]
         ELSE [cue EXCEPT !.is_playing = TRUE, !.progress = One]
    ELSE [cue EXCEPT !.is_playing = FALSE, !.progress = Zero]
CueUpdateExclusive(cue, current_time) ==
    IF current_time >= cue.start_time
    THEN LET elapsed_in_cue == current_time - cue.start_time IN
         IF elapsed_in_cue < cue.duration
         THEN [cue EXCEPT !.is_playing = TRUE,
                          !.progress = DivSecsF32(elapsed_in_cue, cue.duration)]
         ELSE [cue EXCEPT !.is_playing = FALSE, !.progress = One]
    ELSE [cue EXCEPT !.is_playing = FALSE, !.progress = Zero]
CueUpdateAbsolute(cue, current_time) ==
    IF current_time >= cue.start_time
    THEN LET elapsed_in_cue == current_time - cue.start_time IN
         IF elapsed_in_cue <= cue.duration
         THEN [cue EXCEPT !.is_playing = TRUE,
                          !.progress = DivSecsF32(current_time, cue.duration)]
         ELSE [cue EXCEPT !.is_playing = FALSE, !.progress = One]
    ELSE [cue EXCEPT !.is_playing = FALSE, !.progress = Zero]
CueUpdate(cue, current_time) ==
    IF current_time >= cue.start_time
    THEN LET elapsed_in_cue == current_time - cue.start_time IN
         IF elapsed_in_cue <= cue.duration
         THEN [cue EXCEPT !.is_playing = TRUE,
                          !.progress = DivSecsF32(elapsed_in_cue, cue.duration)]
         ELSE [cue EXCEPT !.is_playing = FALSE, !.progress = One]
    ELSE [cue EXCEPT !.is_playing = FALSE, !.progress = Zero]

\* for cue in &mut self.cues { cue.update(self.elapsed) }, with a tick that
\* leaves the cues alone as the variant.
UpdateAllSkipped(cs, current_time) == cs
UpdateAll(cs, current_time) ==
    [i \in DOMAIN cs |-> CueUpdate(cs[i], current_time)]

\* for cue in &mut self.cues { cue.is_playing = false; cue.progress = 0.0 },
\* with a reset that leaves the progress bars as the variant.
ResetCuesKeepProgress(cs) ==
    [i \in DOMAIN cs |-> [cs[i] EXCEPT !.is_playing = FALSE]]
ResetCues(cs) ==
    [i \in DOMAIN cs |-> [cs[i] EXCEPT !.is_playing = FALSE, !.progress = Zero]]

DefaultCues ==
    <<CueNew("Opening", 2, 5),
      CueNew("First Verse", 8, 10),
      CueNew("Chorus", 19, 8),
      CueNew("Bridge", 28, 12),
      CueNew("Finale", 41, 6)>>

\* -------------------------------------------------------- BeatIndicator
\* Duration::from_secs_f32(60.0 / bpm), in milliseconds
BeatDurationMs(b) == 60000 \div b

BeatIndicatorNew(at) ==
    [current_beat |-> 0,
     last_beat_time |-> at,
     beat_duration |-> BeatDurationMs(120)]

\* BeatIndicator::update, with an update that advances on every call as the
\* variant.
BeatIndicatorUpdateEveryCall(bi, b, at) ==
    [current_beat |-> (bi.current_beat + 1) % 4,
     last_beat_time |-> at,
     beat_duration |-> BeatDurationMs(b)]
BeatIndicatorUpdate(bi, b, at) ==
    LET d == BeatDurationMs(b) IN
    IF (at - bi.last_beat_time) * UnitMs >= d
    THEN [current_beat |-> (bi.current_beat + 1) % 4,
          last_beat_time |-> at,
          beat_duration |-> d]
    ELSE [bi EXCEPT !.beat_duration = d]

\* ---------------------------------------------------------------- state
VARIABLES
    now,              \* the monotonic clock (Instant::now())
    pc,               \* last step of HaloApp::update that ran ("idle": none)
    current_view,     \* AppView
    running,
    start_time,       \* Option<Instant>
    elapsed,          \* Duration
    show_system_time,
    cues,
    link_enabled,
    bpm,
    pad_states,
    beat_indicator,
    repaint,          \* ctx.request_repaint() was called by the last frame
    \* history variables (not program state)
    acc,              \* running time ticks had measured in earlier runs
    seg,              \* running time ticks have measured in the current run
    pending           \* running time the clock moved since the last tick

vars == <<now, pc, current_view, running, start_time, elapsed,
          show_system_time, cues, link_enabled, bpm, pad_states,
          beat_indicator, repaint, acc, seg, pending>>

uiVars == <<current_view, show_system_time, link_enabled, bpm, pad_states>>
clockVars == <<running, start_time, elapsed>>
histVars == <<acc, seg, pending>>

\* Order of the steps inside one frame.
Pos ==
    [idle |-> 0, ticked |-> 1, beat |-> 2, link |-> 3, bpm |-> 4,
     patch |-> 5, systime |-> 6, startstop |-> 7, reset |-> 8, pads |-> 9]

\* The frame has drawn the beat indicator and not yet reached widget w, with
\* widgets handled at any earlier point of the frame as the variant.
BeforeUnordered(w) == Pos[pc] < Pos[w]
Before(w) == Pos[pc] >= Pos.beat /\ Pos[pc] < Pos[w]

BpmMin == 20
BpmMax == 300
\* Values the user may drag the BPM field towards: one below the range and
\* the default tempo.
BpmInputs == {0, 120}

\* egui::DragValue::range(20.0..=300.0), with a range that has no lower end
\* as the variant.
ClampBpmUpperOnly(v) == IF v > BpmMax THEN BpmMax ELSE v
ClampBpm(v) == IF v < BpmMin THEN BpmMin ELSE IF v > BpmMax THEN BpmMax ELSE v

Init ==
    /\ now = 0
    /\ pc = "idle"
    /\ current_view = "Timeline"
    /\ running = FALSE
    /\ start_time = None
    /\ elapsed = from_secs(0)
    /\ show_system_time = FALSE
    /\ cues = DefaultCues
    /\ link_enabled = FALSE
    /\ bpm = 120
    /\ pad_states = [i \in 1..NumPads |-> FALSE]
    /\ beat_indicator = BeatIndicatorNew(0)
    /\ repaint = FALSE
    /\ acc = 0
    /\ seg = 0
    /\ pending = 0

\* The monotonic clock moves on by one unit.
ClockMoves(limit) ==
    /\ now < limit
    /\ now' = now + 1
    /\ pending' = IF running THEN pending + 1 ELSE pending
    /\ UNCHANGED <<pc, uiVars, clockVars, cues, beat_indicator, repaint, acc, seg>>

Advance == ClockMoves(MaxNow)

\* start.elapsed() at the top of the frame, with forgetting the start
\* reference as the variant.
TickElapsedFromZero == now
TickElapsed == now - start_time

\* Top of HaloApp::update: refresh elapsed and the cues while running.
Tick ==
    /\ pc = "idle"
    /\ pc' = "ticked"
    /\ IF running /\ start_time # None
       THEN /\ elapsed' = TickElapsed
            /\ cues' = UpdateAll(cues, TickElapsed)
            /\ seg' = seg + pending
            /\ pending' = 0
       ELSE UNCHANGED <<elapsed, cues, seg, pending>>
    /\ UNCHANGED <<now, uiVars, running, start_time, beat_indicator, repaint, acc>>

\* draw_beat_indicator: the beat indicator advances only while running.
DrawBeatIndicator ==
    /\ pc = "ticked"
    /\ pc' = "beat"
    /\ beat_indicator' = IF running
                         THEN BeatIndicatorUpdate(beat_indicator, bpm, now)
                         ELSE beat_indicator
    /\ UNCHANGED <<now, uiVars, clockVars, cues, repaint, histVars>>

ClickLink ==
    /\ Before("link")
    /\ pc' = "link"
    /\ link_enabled' = ~link_enabled
    /\ UNCHANGED <<now, current_view, show_system_time, bpm, pad_states,
                   clockVars, cues, beat_indicator, repaint, histVars>>

DragBpmTo(inputs) ==
    /\ Before("bpm")
    /\ pc' = "bpm"
    /\ \E v \in inputs : bpm' = ClampBpm(v)
    /\ UNCHANGED <<now, current_view, show_system_time, link_enabled, pad_states,
                   clockVars, cues, beat_indicator, repaint, histVars>>

DragBpm == DragBpmTo(BpmInputs)

ClickPatch ==
    /\ Before("patch")
    /\ pc' = "patch"
    /\ current_view' = IF current_view = "Timeline" THEN "Patch" ELSE "Timeline"
    /\ UNCHANGED <<now, show_system_time, link_enabled, bpm, pad_states,
                   clockVars, cues, beat_indicator, repaint, histVars>>

ClickSystemTime ==
    /\ Before("systime")
    /\ current_view = "Timeline"
    /\ pc' = "systime"
    /\ show_system_time' = ~show_system_time
    /\ UNCHANGED <<now, current_view, link_enabled, bpm, pad_states,
                   clockVars, cues, beat_indicator, repaint, histVars>>

\* self.running = !self.running, with a button that never stops as the
\* variant.
ToggledRunningStuck == TRUE
ToggledRunning == ~running

\* if self.running { self.start_time = Some(Instant::now() - self.elapsed) },
\* with a restart from the current instant as one variant, with a reference
\* taken only at the first start as another and with no reference taken at
\* all as a third.
StartReferenceNoOffset == IF ~running THEN now ELSE start_time
StartReferenceOnce ==
    IF ~running /\ start_time = None THEN now - elapsed ELSE start_time
StartReferenceForgotten == start_time
StartReference == IF ~running THEN now - elapsed ELSE start_time

\* The Start/Stop button, with a stop that re-reads the clock as one variant
\* and with a start that restarts the beat as another.
ClickStartStopResync ==
    /\ Before("startstop")
    /\ current_view = "Timeline"
    /\ pc' = "startstop"
    /\ running' = ToggledRunning
    /\ start_time' = StartReference
    /\ beat_indicator' = IF ~running
                         THEN [beat_indicator EXCEPT !.last_beat_time = now]
                         ELSE beat_indicator
    /\ acc' = IF running THEN acc + seg ELSE acc
    /\ seg' = 0
    /\ pending' = 0
    /\ UNCHANGED <<now, uiVars, elapsed, cues, repaint>>
ClickStartStopRecompute ==
    /\ Before("startstop")
    /\ current_view = "Timeline"
    /\ pc' = "startstop"
    /\ running' = ToggledRunning
    /\ start_time' = StartReference
    /\ elapsed' = IF running THEN now - start_time ELSE elapsed
    /\ acc' = IF running THEN acc + seg ELSE acc
    /\ seg' = 0
    /\ pending' = 0
    /\ UNCHANGED <<now, uiVars, cues, beat_indicator, repaint>>
ClickStartStop ==
    /\ Before("startstop")
    /\ current_view = "Timeline"
    /\ pc' = "startstop"
    /\ running' = ToggledRunning
    /\ start_time' = StartReference
    /\ acc' = IF running THEN acc + seg ELSE acc
    /\ seg' = 0
    /\ pending' = 0
    /\ UNCHANGED <<now, uiVars, elapsed, cues, beat_indicator, repaint>>

\* if self.running { self.start_time = Some(Instant::now()) }, with a reset
\* that keeps the old start reference as the variant.
ResetReferenceKept == start_time
ResetReference == IF running THEN now ELSE start_time

ClickReset ==
    /\ Before("reset")
    /\ current_view = "Timeline"
    /\ pc' = "reset"
    /\ elapsed' = from_secs(0)
    /\ start_time' = ResetReference
    /\ cues' = ResetCues(cues)
    /\ acc' = 0
    /\ seg' = 0
    /\ pending' = 0
    /\ UNCHANGED <<now, uiVars, running, beat_indicator, repaint>>

ClickPad ==
    /\ Before("pads")
    /\ current_view = "Timeline"
    /\ pc' = "pads"
    /\ \E i \in 1..NumPads : pad_states' = [pad_states EXCEPT ![i] = ~pad_states[i]]
    /\ UNCHANGED <<now, current_view, show_system_time, link_enabled, bpm,
                   clockVars, cues, beat_indicator, repaint, histVars>>

\* if self.running || self.show_system_time { ctx.request_repaint() }, with
\* a request made only while running as the variant.
RepaintRequestedRunningOnly == running
RepaintRequested == running \/ show_system_time

\* End of HaloApp::update: request a repaint while running.
EndFrame ==
    /\ Pos[pc] >= Pos.beat
    /\ pc' = "idle"
    /\ repaint' = RepaintRequested
    /\ UNCHANGED <<now, uiVars, clockVars, cues, beat_indicator, histVars>>

Next ==
    \/ Advance
    \/ Tick
    \/ DrawBeatIndicator
    \/ ClickLink
    \/ DragBpm
    \/ ClickPatch
    \/ ClickSystemTime
    \/ ClickStartStop
    \/ ClickReset
    \/ ClickPad
    \/ EndFrame

Spec == Init /\ [][Next]_vars

\* ------------------------------------------------ steady-frame scenario
\* Frames keep up with the clock: the clock moves only between frames, and
\* while the transport runs only once a frame has ticked at the current
\* instant, so that every instant is seen by a frame.
SteadyAdvance ==
    /\ pc = "idle"
    /\ running => elapsed = now - start_time
    /\ ClockMoves(MaxBeatNow)

\* The Start button pressed once, at any instant after launch.
StartOnce == ~running /\ ClickStartStop

BeatNext ==
    \/ SteadyAdvance
    \/ Tick
    \/ DrawBeatIndicator
    \/ StartOnce
    \/ EndFrame

\* The transport is started once, any time after launch, at 120 BPM and
\* with frames at every instant.
BeatSpec == Init /\ [][BeatNext]_vars

\* -------------------------------------------------------- tempo changes
\* Values dragged under TempoSpec: two below the range, the default tempo
\* and two above the range.
TempoInputs == {10, 19, 120, 301, 400}

TempoAdvance == ClockMoves(MaxTempoNow)

DragTempo == DragBpmTo(TempoInputs)

TempoNext ==
    \/ TempoAdvance
    \/ Tick
    \/ DrawBeatIndicator
    \/ DragTempo
    \/ ClickStartStop
    \/ EndFrame

\* The BPM field, the Start/Stop button and the frames, in the timeline
\* view, long enough for a beat at the slowest tempo.
TempoSpec == Init /\ [][TempoNext]_vars

\* ------------------------------------------------------- repaint loop
FrameAdvance == ClockMoves(MaxFrameNow)

\* The frame that a requested repaint brings about.
RepaintFrame == repaint /\ Tick

FrameNext ==
    \/ FrameAdvance
    \/ Tick
    \/ DrawBeatIndicator
    \/ ClickSystemTime
    \/ ClickStartStop
    \/ EndFrame

\* The frames with the two switches that decide the repaint request.  A
\* requested repaint is followed by a frame, and a frame that has begun runs
\* to its end.
FrameSpec ==
    /\ Init
    /\ [][FrameNext]_vars
    /\ WF_vars(RepaintFrame)
    /\ WF_vars(DrawBeatIndicator)
    /\ WF_vars(EndFrame)

\* ------------------------------------------------------ whole-show run
\* The clock moves between frames, ShowStep units at a time.
ShowAdvance ==
    /\ pc = "idle"
    /\ now + ShowStep <= MaxShowNow
    /\ now' = now + ShowStep
    /\ pending' = IF running THEN pending + ShowStep ELSE pending
    /\ UNCHANGED <<pc, uiVars, clockVars, cues, beat_indicator, repaint, acc, seg>>

ShowNext ==
    \/ ShowAdvance
    \/ Tick
    \/ DrawBeatIndicator
    \/ ClickStartStop
    \/ ClickReset
    \/ EndFrame

\* The transport buttons and the frames over the length of the built-in
\* show, at the default tempo and in the timeline view.
ShowSpec == Init /\ [][ShowNext]_vars

\* --------------------------------------------------- Cue::update harness
\* One cue built by Cue::new from bounded arguments, or the built-in show.
CueShows ==
    {DefaultCues} \cup
    {<<CueNew("Cue", s, d)>> : s \in 0..MaxCueStart, d \in 0..MaxCueDur}

CueInit ==
    /\ now = 0
    /\ pc = "idle"
    /\ current_view = "Timeline"
    /\ running = FALSE
    /\ start_time = None
    /\ elapsed = from_secs(0)
    /\ show_system_time = FALSE
    /\ cues \in CueShows
    /\ link_enabled = FALSE
    /\ bpm = 120
    /\ pad_states = [i \in 1..NumPads |-> FALSE]
    /\ beat_indicator = BeatIndicatorNew(0)
    /\ repaint = FALSE
    /\ acc = 0
    /\ seg = 0
    /\ pending = 0

\* self.elapsed = e; for cue in &mut self.cues { cue.update(self.elapsed) }
CueApply ==
    /\ \E e \in 0..MaxCueElapsed :
        /\ elapsed' = e
        /\ cues' = UpdateAll(cues, e)
    /\ pc' = "ticked"
    /\ UNCHANGED <<now, uiVars, running, start_time, beat_indicator, repaint,
                   histVars>>

CueNext == CueApply

CueSpec == CueInit /\ [][CueNext]_vars

\* --------------------------------------------------------------- claims
\* The step taken is step w of the frame.
Did(w) == pc' = w /\ pc # w

\* The f32 p is the number n / d.
IsRatio(p, n, d) == p[2] # 0 /\ p[1] * d = n * p[2]

\* The f32 p is a number in [0, 1].
InUnit(p) == p[2] > 0 /\ 0 <= p[1] /\ p[1] <= p[2]

\* C3: after Cue::update(e) on a cue with duration > 0: before the window
\* the cue is not playing with progress 0; inside the window, both ends
\* included, it is playing with progress (e - start) / duration; after the
\* window it is not playing with progress 1.
C3_CueUpdateCases ==
    pc = "ticked" =>
        \A i \in DOMAIN cues :
            LET c == cues[i]
                e == elapsed IN
            c.duration > 0 =>
                /\ e < c.start_time =>
                    ~c.is_playing /\ c.progress = Zero
                /\ (c.start_time <= e /\ e <= c.start_time + c.duration) =>
                    c.is_playing /\ IsRatio(c.progress, e - c.start_time, c.duration)
                /\ e > c.start_time + c.duration =>
                    ~c.is_playing /\ c.progress = One

\* A cue with a positive duration updated at the very end of its window.
C3_Witness ==
    /\ pc = "ticked"
    /\ \E i \in DOMAIN cues :
        /\ cues[i].duration > 0
        /\ elapsed = cues[i].start_time + cues[i].duration
        /\ cues[i].is_playing

\* The third cue of the built-in show, ("Chorus", 19 s, 8 s), was updated.
ChorusUpdated ==
    /\ pc = "ticked"
    /\ Len(cues) >= 3
    /\ cues[3].name = "Chorus"
    /\ cues[3].start_time = from_secs(19)
    /\ cues[3].duration = from_secs(8)

\* C4 as stated: Chorus is playing with progress 0 at 19 s, playing with
\* progress 0.5 at 23 s, and not playing with progress 1 at 27 s.
C4_ChorusAsStated ==
    ChorusUpdated =>
        /\ elapsed = from_secs(19) =>
            cues[3].is_playing /\ cues[3].progress = Zero
        /\ elapsed = from_secs(23) =>
            cues[3].is_playing /\ IsRatio(cues[3].progress, 1, 2)
        /\ elapsed = from_secs(27) =>
            ~cues[3].is_playing /\ cues[3].progress = One

\* C4 amended: Chorus is playing with progress 0 at 19 s, playing with
\* progress 0.5 at 23 s, still playing with progress 1 at 27 s, and not
\* playing with progress 1 at any later time.
C4_ChorusAmended ==
    ChorusUpdated =>
        /\ elapsed = from_secs(19) =>
            cues[3].is_playing /\ cues[3].progress = Zero
        /\ elapsed = from_secs(23) =>
            cues[3].is_playing /\ IsRatio(cues[3].progress, 1, 2)
        /\ elapsed = from_secs(27) =>
            cues[3].is_playing /\ cues[3].progress = One
        /\ elapsed > from_secs(27) =>
            ~cues[3].is_playing /\ cues[3].progress = One

\* Chorus updated at 27 s, the end of its window.
C4_Witness == ChorusUpdated /\ elapsed = from_secs(27)

\* C7: after Cue::update(e) on a cue with duration 0, progress is 1 when
\* e >= start and 0 when e < start, and it is a number in [0, 1].
C7_ZeroDuration ==
    pc = "ticked" =>
        \A i \in DOMAIN cues :
            cues[i].duration = 0 =>
                /\ elapsed >= cues[i].start_time => cues[i].progress = One
                /\ elapsed < cues[i].start_time => cues[i].progress = Zero
                /\ InUnit(cues[i].progress)

\* C1: after a tick of the running transport, elapsed is a + b: the running
\* time the ticks of earlier runs had measured (acc) plus the running time
\* the ticks of the current run have measured (seg), with nothing added for
\* the time spent stopped.
C1_PauseResume ==
    (pc = "ticked" /\ running) => elapsed = acc + seg

\* A tick of a resumed transport: an earlier run and the current run both
\* measured time, and the clock also moved while the transport was stopped.
C1_Witness ==
    /\ pc = "ticked"
    /\ running
    /\ acc > 0
    /\ seg > 0
    /\ pending = 0
    /\ now - start_time = elapsed
    /\ start_time > 0

\* C2: a reset issued while running leaves the transport running with
\* elapsed 0, and each later tick of that run reports the time the clock
\* has moved since the reset (seg + pending, no earlier run counted).
C2_ResetWhileRunning ==
    [][ /\ (Did("reset") /\ running) => (running' /\ elapsed' = 0)
        /\ (Did("ticked") /\ running /\ acc = 0) => elapsed' = seg + pending
      ]_vars

\* A reset in a frame of a transport that an earlier frame saw running (the
\* beat indicator has advanced), leaving it running.
C2_Witness ==
    /\ pc = "reset"
    /\ running
    /\ elapsed = 0
    /\ beat_indicator.current_beat > 0

\* C5 as stated: a stop issued while running sets running to false and
\* leaves elapsed at now - start_reference read at the stop.
C5_StopAtStopInstant ==
    [][ (Did("startstop") /\ running) =>
            (~running' /\ elapsed' = now - start_time) ]_vars

\* C5 amended: a stop issued while running sets running to false and leaves
\* elapsed at the value the tick of the same frame computed, which is the
\* instant of that tick (now - pending) minus start_reference.
C5_StopAtLastTick ==
    [][ (Did("startstop") /\ running) =>
            /\ ~running'
            /\ elapsed' = elapsed
            /\ elapsed' = (now - pending) - start_time ]_vars

\* A stop in a frame whose tick was earlier than the stop itself.
C5_Witness ==
    /\ pc = "startstop"
    /\ ~running
    /\ start_time # None
    /\ elapsed > 0
    /\ now - start_time > elapsed

\* C6: at 120 BPM, with the transport started once after any time stopped
\* since launch and frames at every instant, the beat indicator is back at
\* 0 in the frame that sees 2.0 s of running.
C6_BeatCycle ==
    (pc = "beat" /\ running /\ bpm = 120 /\ elapsed = from_secs(2)) =>
        beat_indicator.current_beat = 0

\* C8: the transport starts Stopped, the Start/Stop button flips the
\* running flag, and no other step changes it.
C8_TwoStateMachine ==
    /\ ~running
    /\ [][ /\ Did("startstop") => running' = ~running
           /\ ~Did("startstop") => running' = running ]_vars

\* The transport has been started and then stopped again.
C8_Witness ==
    /\ pc = "startstop"
    /\ ~running
    /\ start_time # None

\* C9: a reset, running or stopped, sets elapsed to 0 and every cue to not
\* playing with progress 0.
C9_ResetClears ==
    [][ Did("reset") =>
            /\ elapsed' = 0
            /\ \A i \in DOMAIN cues' :
                ~cues'[i].is_playing /\ cues'[i].progress = Zero ]_vars

\* A reset of a stopped transport that had run into the first cue.
C9_Witness ==
    /\ pc = "reset"
    /\ ~running
    /\ start_time # None
    /\ now - start_time >= cues[1].start_time
    /\ elapsed = 0

\* C10: a tick of the running transport sets elapsed to the tick instant
\* minus start_reference; a tick of the stopped transport leaves elapsed
\* unchanged, and while stopped only a reset changes elapsed.
C10_ClockInvariant ==
    [][ /\ (Did("ticked") /\ running) => elapsed' = now - start_time
        /\ (Did("ticked") /\ ~running) => elapsed' = elapsed
        /\ (~running /\ elapsed' # elapsed) => Did("reset") ]_vars

\* A tick of a transport that was started later than launch and has run.
C10_Witness ==
    /\ pc = "ticked"
    /\ running
    /\ start_time > 0
    /\ elapsed > 0
    /\ pending = 0

\* The f32 p is at most the f32 q (both numbers).
F32Leq(p, q) == p[2] > 0 /\ q[2] > 0 /\ p[1] * q[2] <= q[1] * p[2]

\* C12: at the end of every frame each cue's is_playing and progress are
\* what Cue::update gives for the current elapsed.
C12_CuesDerived ==
    pc = "idle" =>
        \A i \in DOMAIN cues : cues[i] = CueUpdate(cues[i], elapsed)

\* The end of a frame of a transport stopped some time ago inside the
\* second cue.
C12_Witness ==
    /\ pc = "idle"
    /\ ~running
    /\ cues[2].is_playing
    /\ F32Leq(cues[2].progress, One) /\ cues[2].progress # Zero
    /\ now - start_time > elapsed

\* C13: every cue's progress is a number in [0, 1]; no step other than a
\* reset lowers a cue's progress, and a progress of 1 stays 1 until a reset.
C13_ProgressMonotone ==
    /\ [](\A i \in DOMAIN cues : InUnit(cues[i].progress))
    /\ [][ ~Did("reset") =>
             \A i \in DOMAIN cues :
                /\ F32Leq(cues[i].progress, cues'[i].progress)
                /\ cues[i].progress = One => cues'[i].progress = One ]_vars

\* A tick that finds the first cue finished and the second under way.
C13_Witness ==
    /\ pc = "ticked"
    /\ running
    /\ cues[1].progress = One
    /\ ~cues[1].is_playing
    /\ cues[2].is_playing
    /\ cues[2].progress # Zero

\* C18: in the built-in show at most one cue is playing.
C18_AtMostOnePlaying ==
    Cardinality({i \in DOMAIN cues : cues[i].is_playing}) <= 1

\* The last cue of the show is playing and all earlier ones have finished.
C18_Witness ==
    /\ cues = UpdateAll(DefaultCues, elapsed)
    /\ cues[5].is_playing
    /\ \A i \in 1..4 : cues[i].progress = One /\ ~cues[i].is_playing

\* At least 60 / bpm seconds have passed since last_beat_time.
BeatDue == (now - beat_indicator.last_beat_time) * UnitMs * bpm >= 60000

\* C11: current_beat is always in 0..3; it changes only in the beat update
\* of a frame of the running transport, only when 60 / bpm seconds have
\* passed since last_beat_time, and then by exactly +1 mod 4 with
\* last_beat_time set to the current instant; such an update always
\* advances it.
C11_BeatInvariant ==
    /\ [](beat_indicator.current_beat \in 0..3)
    /\ [][ /\ beat_indicator'.current_beat # beat_indicator.current_beat =>
                /\ Did("beat")
                /\ running
                /\ BeatDue
                /\ beat_indicator'.current_beat
                       = (beat_indicator.current_beat + 1) % 4
                /\ beat_indicator'.last_beat_time = now
           /\ (Did("beat") /\ running /\ BeatDue) =>
                beat_indicator'.current_beat
                    = (beat_indicator.current_beat + 1) % 4 ]_vars

\* A beat update at the slowest tempo that has just advanced the beat.
C11_Witness ==
    /\ pc = "beat"
    /\ running
    /\ bpm = BpmMin
    /\ beat_indicator.beat_duration = BeatDurationMs(BpmMin)
    /\ beat_indicator.current_beat > 0
    /\ beat_indicator.last_beat_time = now

\* C15: the BPM is always within [20, 300] and beat_duration is always
\* positive.
C15_BpmInRange ==
    /\ BpmMin <= bpm
    /\ bpm <= BpmMax
    /\ beat_indicator.beat_duration > 0

\* A beat update that received the upper end of the range, which only a
\* clamped edit produces.
C15_Witness ==
    /\ pc = "beat"
    /\ running
    /\ bpm = BpmMax
    /\ beat_indicator.beat_duration = BeatDurationMs(BpmMax)

\* C14: a reset of the stopped transport leaves it stopped with elapsed 0
\* and the start reference untouched; ticks of the stopped transport keep
\* elapsed at 0; the next start takes the start instant as the reference,
\* and the ticks of that run report the time since that start.
C14_ResetWhileStopped ==
    [][ /\ (Did("reset") /\ ~running) =>
              (~running' /\ elapsed' = 0 /\ start_time' = start_time)
        /\ (Did("ticked") /\ ~running /\ elapsed = 0) =>
              (~running' /\ elapsed' = 0)
        /\ (Did("startstop") /\ ~running /\ elapsed = 0) =>
              (running' /\ elapsed' = 0 /\ start_time' = now)
        /\ (Did("ticked") /\ running /\ acc = 0 /\ seg = 0) =>
              elapsed' = pending ]_vars

\* A reset in a frame that began with the transport stopped after an
\* earlier run, some time after that run began.
C14_Witness ==
    /\ pc = "reset"
    /\ ~running
    /\ ~repaint
    /\ ~show_system_time
    /\ start_time # None
    /\ start_time < now
    /\ elapsed = 0

\* C16: in a frame the tick comes first and derives every cue from the
\* elapsed it has just computed, the beat update comes next and does nothing
\* unless running, and the running flag, the Start/Stop button and the Reset
\* button act only after both; inside a frame the cues are always what
\* Cue::update gives for the current elapsed.
C16_FrameOrder ==
    /\ [](pc # "idle" =>
            \A i \in DOMAIN cues : cues[i] = CueUpdate(cues[i], elapsed))
    /\ [][ /\ Did("beat") => pc = "ticked"
           /\ (Did("ticked") /\ running) =>
                /\ elapsed' = now - start_time
                /\ \A i \in DOMAIN cues : cues'[i] = CueUpdate(cues[i], elapsed')
           /\ (Did("beat") /\ ~running) => beat_indicator' = beat_indicator
           /\ (Did("startstop") \/ Did("reset") \/ running' # running) =>
                Pos[pc] >= Pos.beat ]_vars

\* A stop applied in a frame whose tick and beat update ran at this instant
\* with the first cue playing.
C16_Witness ==
    /\ pc = "startstop"
    /\ ~running
    /\ start_time # None
    /\ elapsed = now - start_time
    /\ cues[1].is_playing
    /\ beat_indicator.last_beat_time = now

\* C17: whenever the transport is running, start_time is set.
C17_RunningHasStart == running => start_time # None

\* The first start, taken at the current instant.
C17_Witness ==
    /\ pc = "startstop"
    /\ running
    /\ elapsed = 0
    /\ start_time = now
    /\ now > 0

\* C20: the Start/Stop and Reset buttons leave the beat indicator as it is,
\* and only the beat update of a frame of the running transport changes it.
C20_ButtonsKeepBeat ==
    [][ /\ (Did("startstop") \/ Did("reset")) =>
              beat_indicator' = beat_indicator
        /\ beat_indicator' # beat_indicator => (Did("beat") /\ running) ]_vars

\* A resumed transport whose beat indicator still carries the phase of the
\* earlier run.
C20_Witness ==
    /\ pc = "startstop"
    /\ running
    /\ elapsed > 0
    /\ beat_indicator.current_beat > 0
    /\ beat_indicator.last_beat_time < now

\* C19: the end of a frame requests a repaint exactly when the transport is
\* running or the system time is shown; so between frames a running
\* transport always has a repaint requested and its next tick eventually
\* comes, and a frame that ends stopped with the system time hidden
\* requests none.
C19_RepaintWhileRunning ==
    /\ [][ Did("idle") => (repaint' <=> (running' \/ show_system_time')) ]_vars
    /\ []((pc = "idle" /\ running) => repaint)
    /\ ((pc = "idle" /\ running) ~> (pc = "ticked"))

\* The end of a frame in which the transport was stopped with the system
\* time hidden: no repaint is requested.
C19_Witness ==
    /\ pc = "idle"
    /\ ~running
    /\ start_time # None
    /\ ~show_system_time
    /\ ~repaint
====
